---- MODULE Spec2Model ----
(***************************************************************************)
(* A model of the calendar arithmetic and the duration formatter of the    *)
(* temporalis package (src/temporalis.go, src/utils.go).                   *)
(*                                                                         *)
(* A time.Time is an instant plus a location; a time.Duration is a signed  *)
(* count of clock ticks.  The package counts nanoseconds; the model counts *)
(* ticks of 1/TicksPerSecond second, and instants are counted from         *)
(* 2024-01-01T00:00:00Z (a Monday) so that every value fits TLC's integers.*)
(***************************************************************************)
EXTENDS Integers, Sequences, FiniteSets, TLC

----------------------------------------------------------------------------
(* Durations *)

\* Resolution of a Duration: ticks in one second.
TicksPerSecond == 2

Second == TicksPerSecond
Minute == 60 * Second
Hour == 60 * Minute
TicksPerDay == 24 * Hour

\* Integer division rounding toward minus infinity instead of toward zero.
GoDivFloor(a, b) == a \div b

\* Go's integer division and remainder truncate toward zero.
GoDiv(a, b) == IF a >= 0 THEN a \div b ELSE -((-a) \div b)
GoRem(a, b) == a - b * GoDiv(a, b)

\* Duration.Seconds(): whole seconds plus the fraction of a second left over,
\* both carrying the sign of d (the float64 the method returns is their sum).
Seconds(d) == [whole |-> GoDiv(d, Second), frac |-> GoRem(d, Second)]

\* Duration.Hours(): whole hours plus the fraction of an hour left over.
Hours(d) == [whole |-> GoDiv(d, Hour), frac |-> GoRem(d, Hour)]

\* int64(f) / int(f) of a float64 given as whole + fraction of the same sign:
\* the conversion truncates toward zero, which drops the fraction.
TruncFloat(f) == f.whole

\* f / n for a float64 f given as whole + fraction, then truncated to an
\* integer: the fraction (below one unit, same sign) cannot carry into the
\* quotient.
TruncFloatDiv(f, n) == GoDiv(f.whole, n)

----------------------------------------------------------------------------
(* Locations and the civil calendar *)

UTC == "UTC"
NewYork == "America/New_York"
Berlin == "Europe/Berlin"
Locations == {UTC, NewYork, Berlin}

Omega == 2^30
Alpha == -Omega

\* The two offset transitions of America/New_York in 2024, as instants:
\* 2024-03-10T07:00:00Z (EST -> EDT) and 2024-11-03T06:00:00Z (EDT -> EST).
DstStart == (69 * 24 + 7) * Hour
DstEnd == (307 * 24 + 6) * Hour

\* The two offset transitions of Europe/Berlin in 2024, as instants:
\* 2024-03-31T01:00:00Z (CET -> CEST) and 2024-10-27T01:00:00Z (CEST -> CET).
CestStart == (90 * 24 + 1) * Hour
CestEnd == (300 * 24 + 1) * Hour

\* Location.lookup: the zone in force at an instant, with the bounds of the
\* period in which it is in force.
lookup(loc, unix) ==
    IF loc = UTC THEN [offset |-> 0, start |-> Alpha, end |-> Omega]
    ELSE IF loc = Berlin THEN
        IF unix < CestStart THEN [offset |-> Hour, start |-> Alpha, end |-> CestStart]
        ELSE IF unix < CestEnd THEN [offset |-> 2 * Hour, start |-> CestStart, end |-> CestEnd]
        ELSE [offset |-> Hour, start |-> CestEnd, end |-> Omega]
    ELSE IF unix < DstStart THEN [offset |-> -5 * Hour, start |-> Alpha, end |-> DstStart]
    ELSE IF unix < DstEnd THEN [offset |-> -4 * Hour, start |-> DstStart, end |-> DstEnd]
    ELSE [offset |-> -5 * Hour, start |-> DstEnd, end |-> Omega]

\* The year the model counts instants from (the package counts from year 1).
EpochYear == 2024

\* The year is leap under the division by 4 alone.
IsLeapYearJulian(year) == GoRem(year, 4) = 0

IsLeapYear(year) ==
    GoRem(year, 4) = 0 /\ (GoRem(year, 100) # 0 \/ GoRem(year, 400) = 0)

daysIn(month, year) ==
    IF month = 2 THEN (IF IsLeapYear(year) THEN 29 ELSE 28)
    ELSE IF month \in {4, 6, 9, 11} THEN 30 ELSE 31

daysInYear(year) == IF IsLeapYear(year) THEN 366 ELSE 365

\* Days from the epoch to the first day of (year, month); year >= EpochYear.
RECURSIVE daysBefore(_, _)
daysBefore(year, month) ==
    IF month > 1 THEN daysBefore(year, month - 1) + daysIn(month - 1, year)
    ELSE IF year > EpochYear THEN daysBefore(year - 1, 1) + daysInYear(year - 1)
    ELSE 0

\* The civil date of the n-th day (n >= 0) counted from the first of (year, month).
RECURSIVE civilFrom(_, _, _)
civilFrom(year, month, n) ==
    IF n < daysIn(month, year) THEN [year |-> year, month |-> month, day |-> n + 1]
    ELSE IF month = 12 THEN civilFrom(year + 1, 1, n - daysIn(month, year))
    ELSE civilFrom(year, month + 1, n - daysIn(month, year))

\* Wall-clock reading of t in its own location, in ticks since the epoch.
abs(t) == t.unix + lookup(t.loc, t.unix).offset

absDay(t) == abs(t) \div TicksPerDay

\* Time.Date(): year, month, day of t in its location.
civil(t) == civilFrom(EpochYear, 1, absDay(t))

Year(t) == civil(t).year
Month(t) == civil(t).month
Day(t) == civil(t).day

\* Time.Clock(), with the sub-second part: ticks since local midnight.
Clock(t) == abs(t) % TicksPerDay

Sunday == 0
Monday == 1
Saturday == 6

\* Time.Weekday(): the epoch day is a Monday.
Weekday(t) == (absDay(t) + Monday) % 7

\* Date(year, month, day, hour, min, sec, nsec, loc), the clock fields given
\* as ticks since midnight.  Out-of-range months and days are normalised; the
\* wall-clock reading is then resolved to an instant through the location.
Date(year, month, day, clock, loc) ==
    LET y == year + (month - 1) \div 12
        m == ((month - 1) % 12) + 1
        unix == (daysBefore(y, m) + day - 1) * TicksPerDay + clock
        z == lookup(loc, unix)
        utc == unix - z.offset
    IN  IF z.offset # 0
        THEN IF utc < z.start \/ utc >= z.end
             THEN [unix |-> unix - lookup(loc, utc).offset, loc |-> loc]
             ELSE [unix |-> utc, loc |-> loc]
        ELSE [unix |-> unix, loc |-> loc]

\* Time.AddDate(years, months, days).
AddDate(t, years, months, days) ==
    LET c == civil(t)
    IN  Date(c.year + years, c.month + months, c.day + days, Clock(t), t.loc)

\* Time.Add(d), Time.Sub(u), Time.Before(u), Time.After(u).
Add(t, d) == [t EXCEPT !.unix = @ + d]
Sub(t, u) == t.unix - u.unix
Before(t, u) == t.unix < u.unix
After(t, u) == t.unix > u.unix

----------------------------------------------------------------------------
(* src/utils.go *)

\* pluralize adding the "s" whatever the count.
pluralizeAlways(count, word) == ToString(count) \o " " \o word \o "s"

\* pluralize(count, word): fmt.Sprintf("%d %s", ...) or fmt.Sprintf("%d %ss", ...).
pluralize(count, word) ==
    IF count = 1 THEN ToString(count) \o " " \o word
    ELSE ToString(count) \o " " \o word \o "s"

isWeekend(t) == Weekday(t) = Saturday \/ Weekday(t) = Sunday

\* isHoliday comparing the instants themselves instead of their dates.
isHolidaySameInstant(t, holidays) == \E i \in 1..Len(holidays) : t = holidays[i]

\* isHoliday asking for the holiday's time of day as well as its date.
isHolidaySameClock(t, holidays) ==
    \E i \in 1..Len(holidays) :
        /\ Year(t) = Year(holidays[i])
        /\ Month(t) = Month(holidays[i])
        /\ Day(t) = Day(holidays[i])
        /\ Clock(t) = Clock(holidays[i])

\* t.Year() == h.Year() && t.Month() == h.Month() && t.Day() == h.Day() for
\* some h of holidays; each side's three fields come from one civil date.
isHoliday(t, holidays) ==
    LET ct == civil(t)
    IN  \E i \in 1..Len(holidays) :
            LET ch == civil(holidays[i])
            IN  /\ ct.year = ch.year
                /\ ct.month = ch.month
                /\ ct.day = ch.day

----------------------------------------------------------------------------
(* src/temporalis.go: the range operations *)

\* The nil error and fmt.Errorf(format, args...).
Nil == [format |-> "", args |-> <<>>]
Errorf(format, args) == [format |-> format, args |-> args]

\* for d := start; !d.After(end); d = d.AddDate(0, 0, 1) { dates = append(dates, d) }
RECURSIVE DateRangeLoop(_, _, _)
DateRangeLoop(d, end, dates) ==
    IF After(d, end) THEN dates
    ELSE DateRangeLoop(AddDate(d, 0, 0, 1), end, Append(dates, d))

\* DateRange appending start before the first test of the loop condition.
DateRangeTestAfter(start, end) ==
    DateRangeLoop(AddDate(start, 0, 0, 1), end, <<start>>)

DateRange(start, end) == DateRangeLoop(start, end, <<>>)

\* DateDiff counting calendar dates instead of elapsed hours.
DateDiffCalendar(start, end) ==
    IF Before(end, start)
    THEN [days |-> 0,
          err |-> Errorf("end date %v is before start date %v", <<end, start>>)]
    ELSE [days |-> absDay(end) - absDay(start), err |-> Nil]

DateDiff(start, end) ==
    IF Before(end, start)
    THEN [days |-> 0,
          err |-> Errorf("end date %v is before start date %v", <<end, start>>)]
    ELSE [days |-> TruncFloatDiv(Hours(Sub(end, start)), 24), err |-> Nil]

\* The loop of WorkingDays; iters counts the executions of the loop body.
RECURSIVE WorkingDaysLoop(_, _, _, _, _)
WorkingDaysLoop(d, end, holidays, weekdays, iters) ==
    IF After(d, end) THEN [weekdays |-> weekdays, iters |-> iters]
    ELSE WorkingDaysLoop(AddDate(d, 0, 0, 1), end, holidays,
                         IF ~isWeekend(d) /\ ~isHoliday(d, holidays)
                         THEN weekdays + 1 ELSE weekdays,
                         iters + 1)

\* WorkingDays rejecting end == start as well.
WorkingDaysRejectEqual(start, end, holidays) ==
    IF ~After(end, start)
    THEN [count |-> 0,
          err |-> Errorf("end date %v is before start date %v", <<end, start>>),
          iters |-> 0]
    ELSE LET r == WorkingDaysLoop(start, end, holidays, 0, 0)
         IN  [count |-> r.weekdays, err |-> Nil, iters |-> r.iters]

WorkingDays(start, end, holidays) ==
    IF Before(end, start)
    THEN [count |-> 0,
          err |-> Errorf("end date %v is before start date %v", <<end, start>>),
          iters |-> 0]
    ELSE LET r == WorkingDaysLoop(start, end, holidays, 0, 0)
         IN  [count |-> r.weekdays, err |-> Nil, iters |-> r.iters]

\* for from.Before(to) { if ... { total += time.Hour }; from = from.Add(time.Hour) }
RECURSIVE BusinessHoursLoop(_, _, _, _)
BusinessHoursLoop(from, to, holidays, total) ==
    IF ~Before(from, to) THEN total
    ELSE BusinessHoursLoop(Add(from, Hour), to, holidays,
                           LET weekday == Weekday(from)
                           IN  IF /\ weekday # Saturday
                                  /\ weekday # Sunday
                                  /\ ~isHoliday(from, holidays)
                               THEN total + Hour ELSE total)

\* BusinessHours counting only the hours that end by `to`.
BusinessHoursWholeHours(from, to, holidays) ==
    BusinessHoursLoop(from, Add(to, 1 - Hour), holidays, 0)

BusinessHours(from, to, holidays) == BusinessHoursLoop(from, to, holidays, 0)

RECURSIVE BusinessDaysLoop(_, _, _, _)
BusinessDaysLoop(d, to, holidays, total) ==
    IF After(d, to) THEN total
    ELSE BusinessDaysLoop(AddDate(d, 0, 0, 1), to, holidays,
                          IF /\ Weekday(d) # Saturday
                             /\ Weekday(d) # Sunday
                             /\ ~isHoliday(d, holidays)
                          THEN total + 1 ELSE total)

\* BusinessDays forgetting the holiday list.
BusinessDaysNoHolidays(from, to, holidays) == BusinessDaysLoop(from, to, <<>>, 0)

BusinessDays(from, to, holidays) == BusinessDaysLoop(from, to, holidays, 0)

----------------------------------------------------------------------------
(* src/temporalis.go: FormatDuration *)

SecondsPerDay == 86400
SecondsPerHour == 3600
SecondsPerMinute == 60

\* durationParts without the subtraction after the division by 86400.
durationPartsKeepDays(duration) ==
    LET s0 == TruncFloat(Seconds(duration))
        days == GoDiv(s0, SecondsPerDay)
        hours == GoDiv(s0, SecondsPerHour)
        s2 == s0 - hours * SecondsPerHour
        minutes == GoDiv(s2, SecondsPerMinute)
        s3 == s2 - minutes * SecondsPerMinute
    IN  [days |-> days, hours |-> hours, minutes |-> minutes, seconds |-> s3]

\* seconds := int64(duration.Seconds()), then the three divisions, each
\* followed by the subtraction of what it took.
durationParts(duration) ==
    LET s0 == TruncFloat(Seconds(duration))
        days == GoDiv(s0, SecondsPerDay)
        s1 == s0 - days * SecondsPerDay
        hours == GoDiv(s1, SecondsPerHour)
        s2 == s1 - hours * SecondsPerHour
        minutes == GoDiv(s2, SecondsPerMinute)
        s3 == s2 - minutes * SecondsPerMinute
    IN  [days |-> days, hours |-> hours, minutes |-> minutes, seconds |-> s3]

\* The appends guarded by >= 0 instead of > 0.
durationTokensKeepZero(p) ==
    (IF p.days >= 0 THEN <<pluralize(p.days, "day")>> ELSE <<>>)
    \o (IF p.hours >= 0 THEN <<pluralize(p.hours, "hour")>> ELSE <<>>)
    \o (IF p.minutes >= 0 THEN <<pluralize(p.minutes, "minute")>> ELSE <<>>)
    \o (IF p.seconds >= 0 THEN <<pluralize(p.seconds, "second")>> ELSE <<>>)

\* var parts []string, and the four conditional appends.
durationTokens(p) ==
    (IF p.days > 0 THEN <<pluralize(p.days, "day")>> ELSE <<>>)
    \o (IF p.hours > 0 THEN <<pluralize(p.hours, "hour")>> ELSE <<>>)
    \o (IF p.minutes > 0 THEN <<pluralize(p.minutes, "minute")>> ELSE <<>>)
    \o (IF p.seconds > 0 THEN <<pluralize(p.seconds, "second")>> ELSE <<>>)

\* strings.Join(parts, sep)
RECURSIVE Join(_, _)
Join(parts, sep) ==
    IF Len(parts) = 0 THEN ""
    ELSE IF Len(parts) = 1 THEN parts[1]
    ELSE parts[1] \o sep \o Join(Tail(parts), sep)

\* The default case joining every part with ", " and putting "and" after the
\* last comma.
joinPartsSerialComma(parts) ==
    CASE Len(parts) = 0 -> "0 seconds"
      [] Len(parts) = 1 -> parts[1]
      [] Len(parts) = 2 -> parts[1] \o " and " \o parts[2]
      [] OTHER -> Join(SubSeq(parts, 1, Len(parts) - 1), ", ")
                  \o ", and " \o parts[Len(parts)]

\* switch len(parts) { ... }
joinParts(parts) ==
    CASE Len(parts) = 0 -> "0 seconds"
      [] Len(parts) = 1 -> parts[1]
      [] Len(parts) = 2 -> parts[1] \o " and " \o parts[2]
      [] OTHER -> Join(SubSeq(parts, 1, Len(parts) - 1), ", ")
                  \o " and " \o parts[Len(parts)]

FormatDuration(duration) == joinParts(durationTokens(durationParts(duration)))

----------------------------------------------------------------------------
(* The callers: one call at a time, its arguments and what it returned *)

VARIABLES op, start, end, holidays, duration, year, ret,
          pc, tickerC, fired, held, received, taken, closed, stopped

\* The arguments and the result of the call in progress.
callVars == <<op, start, end, holidays, duration, year, ret>>

\* Tick: the goroutine's position and the value of its local t (held), the
\* buffer of ticker.C, the number of ticks the ticker has produced, the values
\* the consumer received from c, the values the goroutine took from ticker.C,
\* and whether c is closed and the ticker stopped.
tickVars == <<pc, tickerC, fired, held, received, taken, closed, stopped>>

vars == <<callVars, tickVars>>

\* Days of the window of dates the calls are made on, after its first day.
MaxDays == 5
\* Longest holiday list.
MaxHolidays == 2
\* Most whole days in a duration handed to FormatDuration.
MaxDurationDays == 2
\* Longest span, in hours, handed to BusinessHours (its loop runs once an hour).
MaxSpanHours == 50
\* Latest year handed to IsLeapYear; the earliest is its negative.
MaxYear == 2400

\* Wall-clock readings of the arguments: midnight, 02:30 (skipped in New York
\* on 2024-03-10 and in Berlin on 2024-03-31), noon, and the last tick of the
\* day.
Clocks == {0, 2 * Hour + 30 * Minute, 12 * Hour, TicksPerDay - 1}

\* The day of March 2024 the window of dates starts on: Fri 2024-03-08, and in
\* Berlin Fri 2024-03-29.
FirstDay(loc) == IF loc = Berlin THEN 29 ELSE 8

\* The Friday and the MaxDays days after it: a weekend, the location's
\* transition to summer time on the Sunday, and weekdays on both sides.
Times(loc) ==
    {Date(EpochYear, 3, FirstDay(loc) + k, c, loc) : k \in 0..MaxDays, c \in Clocks}

\* The Monday of the window (noon, UTC) and its Tuesday (midnight, New York
\* or Berlin).
HolidayDates(loc) ==
    {Date(EpochYear, 3, FirstDay(loc) + 3, 12 * Hour, UTC),
     Date(EpochYear, 3, FirstDay(loc) + 4, 0, IF loc = Berlin THEN Berlin ELSE NewYork)}

HolidayLists(loc) == UNION {[1..n -> HolidayDates(loc)] : n \in 0..MaxHolidays}

Durations ==
    {sign * (((d * 24 + h) * 60 + m) * 60 * Second + s * Second + f) :
        sign \in {1, -1}, d \in 0..MaxDurationDays, h \in {0, 1, 3, 23},
        m \in {0, 1, 4, 59}, s \in {0, 1, 5, 59}, f \in 0..(TicksPerSecond - 1)}
    \cup {s * Second : s \in 0..59}

Years == (-MaxYear)..MaxYear

ZeroTime == [unix |-> 0, loc |-> UTC]
NoValue == [none |-> TRUE]

Init ==
    /\ op = "none"
    /\ start = ZeroTime
    /\ end = ZeroTime
    /\ holidays = <<>>
    /\ duration = 0
    /\ year = 0
    /\ ret = NoValue
    /\ pc = "idle"
    /\ tickerC = <<>>
    /\ fired = 0
    /\ held = 0
    /\ received = <<>>
    /\ taken = <<>>
    /\ closed = FALSE
    /\ stopped = FALSE

CallDateRange ==
    /\ op = "none"
    /\ \E loc \in Locations : \E s \in Times(loc), e \in Times(loc) :
        /\ start' = s
        /\ end' = e
        /\ ret' = DateRange(s, e)
    /\ op' = "DateRange"
    /\ UNCHANGED <<holidays, duration, year>>
    /\ UNCHANGED tickVars

CallDateDiff ==
    /\ op = "none"
    /\ \E loc \in Locations : \E s \in Times(loc), e \in Times(loc) :
        /\ start' = s
        /\ end' = e
        /\ ret' = DateDiff(s, e)
    /\ op' = "DateDiff"
    /\ UNCHANGED <<holidays, duration, year>>
    /\ UNCHANGED tickVars

CallWorkingDays ==
    /\ op = "none"
    /\ \E loc \in Locations : \E s \in Times(loc), e \in Times(loc), h \in HolidayLists(loc) :
        /\ start' = s
        /\ end' = e
        /\ holidays' = h
        /\ ret' = WorkingDays(s, e, h)
    /\ op' = "WorkingDays"
    /\ UNCHANGED <<duration, year>>
    /\ UNCHANGED tickVars

CallBusinessDays ==
    /\ op = "none"
    /\ \E loc \in Locations : \E s \in Times(loc), e \in Times(loc), h \in HolidayLists(loc) :
        /\ start' = s
        /\ end' = e
        /\ holidays' = h
        /\ ret' = BusinessDays(s, e, h)
    /\ op' = "BusinessDays"
    /\ UNCHANGED <<duration, year>>
    /\ UNCHANGED tickVars

CallBusinessHours ==
    /\ op = "none"
    /\ \E loc \in Locations : \E s \in Times(loc), e \in Times(loc), h \in HolidayLists(loc) :
        /\ Sub(e, s) <= MaxSpanHours * Hour
        /\ start' = s
        /\ end' = e
        /\ holidays' = h
        /\ ret' = BusinessHours(s, e, h)
    /\ op' = "BusinessHours"
    /\ UNCHANGED <<duration, year>>
    /\ UNCHANGED tickVars

CallFormatDuration ==
    /\ op = "none"
    /\ \E d \in Durations :
        /\ duration' = d
        /\ ret' = FormatDuration(d)
    /\ op' = "FormatDuration"
    /\ UNCHANGED <<start, end, holidays, year>>
    /\ UNCHANGED tickVars

CallIsLeapYear ==
    /\ op = "none"
    /\ \E y \in Years :
        /\ year' = y
        /\ ret' = IsLeapYear(y)
    /\ op' = "IsLeapYear"
    /\ UNCHANGED <<start, end, holidays, duration>>
    /\ UNCHANGED tickVars

\* The caller has used the result and is ready for its next call.
Return ==
    /\ op # "none"
    /\ op' = "none"
    /\ start' = ZeroTime
    /\ end' = ZeroTime
    /\ holidays' = <<>>
    /\ duration' = 0
    /\ year' = 0
    /\ ret' = NoValue
    /\ UNCHANGED tickVars

Next ==
    \/ CallDateRange
    \/ CallDateDiff
    \/ CallWorkingDays
    \/ CallBusinessDays
    \/ CallBusinessHours
    \/ CallFormatDuration
    \/ CallIsLeapYear
    \/ Return

Spec == Init /\ [][Next]_vars

----------------------------------------------------------------------------
(* src/temporalis.go: Tick, its goroutine, the ticker and the consumer *)

\* Most ticks the ticker produces.
MaxTicks == 6

\* The durations Tick is called with: zero and the first positive ones.
TickDurations == 0..2

\* The statements that send on done or close it.  done is a local of Tick
\* that is neither returned nor captured by anything but the goroutine's
\* select, and no statement of the package sends on it or closes it.
doneSenders == {}

\* Tick(d): time.NewTicker panics unless d is positive; otherwise the ticker,
\* done and c are made, the goroutine starts at its select and c is returned.
CallTick ==
    /\ pc = "idle"
    /\ \E d \in TickDurations :
        pc' = IF d <= 0 THEN "panic" ELSE "select"
    /\ UNCHANGED <<tickerC, fired, held, received, taken, closed, stopped>>
    /\ UNCHANGED callVars

\* The runtime's ticker: ticker.C has room for one tick, and a tick that finds
\* it full is dropped.
TickerFire ==
    /\ pc \in {"select", "send", "done"}
    /\ ~stopped
    /\ fired < MaxTicks
    /\ fired' = fired + 1
    /\ tickerC' = IF tickerC = <<>> THEN <<fired + 1>> ELSE tickerC
    /\ UNCHANGED <<pc, held, received, taken, closed, stopped>>
    /\ UNCHANGED callVars

\* The cases of the select that can proceed.
ReadyCases ==
    (IF tickerC # <<>> THEN {"tick"} ELSE {})
    \cup (IF doneSenders # {} THEN {"done"} ELSE {})

\* The goroutine's select: one of the cases that can proceed is taken.
\* case t := <-ticker.C goes on to the send; case <-done stops the ticker,
\* closes c and returns.
GoroutineSelect ==
    /\ pc = "select"
    /\ \E case \in ReadyCases :
        IF case = "tick"
        THEN /\ held' = tickerC[1]
             /\ tickerC' = <<>>
             /\ taken' = Append(taken, tickerC[1])
             /\ pc' = "send"
             /\ UNCHANGED <<closed, stopped>>
        ELSE /\ stopped' = TRUE
             /\ closed' = TRUE
             /\ pc' = "done"
             /\ UNCHANGED <<held, tickerC, taken>>
    /\ UNCHANGED <<fired, received>>
    /\ UNCHANGED callVars

\* A receive after which the goroutine is still at its send, offering the
\* same value again.
ReceiveKeepsSending ==
    /\ pc = "send"
    /\ Len(received) < MaxTicks
    /\ received' = Append(received, held)
    /\ UNCHANGED <<pc, tickerC, fired, held, taken, closed, stopped>>
    /\ UNCHANGED callVars

\* The consumer's receive from c.  c has no buffer: the goroutine's c <- t and
\* the receive happen together, and the goroutine goes back to its select.  A
\* receive from a closed c gives the zero value.
Receive ==
    /\ pc = "send" \/ closed
    /\ Len(received) < MaxTicks
    /\ IF pc = "send"
       THEN /\ received' = Append(received, held)
            /\ pc' = "select"
       ELSE /\ received' = Append(received, 0)
            /\ UNCHANGED pc
    /\ UNCHANGED <<tickerC, fired, held, taken, closed, stopped>>
    /\ UNCHANGED callVars

NextTick ==
    \/ CallTick
    \/ TickerFire
    \/ GoroutineSelect
    \/ Receive

SpecTick == Init /\ [][NextTick]_vars

\* The runtime fires a running ticker and runs a goroutine that can proceed;
\* the consumer is taken to receive whenever a value is offered.
SpecTickFair ==
    /\ SpecTick
    /\ WF_vars(CallTick)
    /\ WF_vars(TickerFire)
    /\ WF_vars(GoroutineSelect)
    /\ WF_vars(Receive)

----------------------------------------------------------------------------
(* What the documentation says of the operations, stated without the loops *)

\* The n-th day since the epoch is a working date: Monday to Friday, and its
\* (year, month, day) is that of no holiday.
WorkingDate(n, hol) ==
    /\ (n + Monday) % 7 \notin {Saturday, Sunday}
    /\ \A i \in 1..Len(hol) : civilFrom(EpochYear, 1, n) # civil(hol[i])

\* The instant t lies on a working date of its location.
WorkingInstant(t, hol) == WorkingDate(absDay(t), hol)

\* The instants from + k * 1h, k >= 0, strictly before to.
StepInstants(from, to) ==
    {t \in {Add(from, k * Hour) : k \in 0..(Sub(to, from) \div Hour + 1)} : Before(t, to)}

\* a / b rounded up, for a >= 0 and b > 0.
CeilDiv(a, b) == (a + b - 1) \div b

----------------------------------------------------------------------------
(* C1 *)

\* C1: for end not before start, WorkingDays returns a nil error and the
\* number of calendar dates from start's date to end's date inclusive that
\* are neither Saturday/Sunday nor the date of a holiday.
C1_WorkingDaysCountsDates ==
    (op = "WorkingDays" /\ ~Before(end, start)) =>
        /\ ret.err = Nil
        /\ ret.count =
             Cardinality({n \in absDay(start)..absDay(end) : WorkingDate(n, holidays)})

----------------------------------------------------------------------------
(* C2 *)

----------------------------------------------------------------------------
(* C3 *)

\* C3: for start not after end, WorkingDays and BusinessDays return the same
\* count for the same range and holiday list.
C3_WorkingDaysEqualsBusinessDays ==
    /\ (op = "WorkingDays" /\ ~After(start, end)) =>
          ret.count = BusinessDays(start, end, holidays)
    /\ (op = "BusinessDays" /\ ~After(start, end)) =>
          ret = WorkingDays(start, end, holidays).count

C3_Witness ==
    /\ op = "WorkingDays"
    /\ ~After(start, end)
    /\ ret.count = 2
    /\ ret.iters = 6
    /\ Len(holidays) = 2
    /\ holidays[1] # holidays[2]

----------------------------------------------------------------------------
(* C4 *)

----------------------------------------------------------------------------
(* C5 *)

\* Every instant of [from, to) lies on a working date.
OnWorkingDates(from, to, hol) ==
    \A n \in absDay(from)..absDay(Add(to, -1)) : WorkingDate(n, hol)

----------------------------------------------------------------------------
(* C6 *)

\* C6: on a misordered range DateRange is empty and BusinessDays is 0, and
\* BusinessHours is the zero duration whenever from is not strictly before
\* to; none of the three has an error to return.
C6_DegenerateOnMisorderedRange ==
    /\ (op = "DateRange" /\ start.unix > end.unix) => ret = <<>>
    /\ (op = "BusinessDays" /\ start.unix > end.unix) => ret = 0
    /\ (op = "BusinessHours" /\ start.unix >= end.unix) => ret = 0

C6_Witness ==
    /\ op = "DateRange"
    /\ start.unix > end.unix
    /\ absDay(start) = absDay(end)
    /\ ret = <<>>

----------------------------------------------------------------------------
(* C7 *)

\* C7: for start not after end, DateRange has DateDiff + 1 elements, and
\* DateRange(start, start) is the one element start.
C7_RangeLengthIsDiffPlusOne ==
    (op = "DateRange" /\ ~After(start, end)) =>
        /\ Len(ret) = DateDiff(start, end).days + 1
        /\ (start = end) => ret = <<start>>

----------------------------------------------------------------------------
(* C8 *)

\* C8: for start not after end, DateRange starts with start, each later
\* element is the one before it plus one calendar day, no element is after
\* end, and the last element falls on end's calendar date.
C8_RangeIsInclusive ==
    (op = "DateRange" /\ ~After(start, end)) =>
        /\ Len(ret) >= 1
        /\ ret[1] = start
        /\ \A i \in 1..(Len(ret) - 1) :
              /\ absDay(ret[i + 1]) = absDay(ret[i]) + 1
              /\ ret[i + 1].loc = ret[i].loc
        /\ \A i \in 1..Len(ret) : ret[i].unix <= end.unix
        /\ absDay(ret[Len(ret)]) = absDay(end)

----------------------------------------------------------------------------
(* C9 *)

----------------------------------------------------------------------------
(* C10 *)

\* The token of a count and a unit, and the joined text, as documented.
RefToken(count, unit) == ToString(count) \o " " \o unit \o (IF count = 1 THEN "" ELSE "s")

RefTokens(n) ==
    LET d == n \div 86400
        h == (n % 86400) \div 3600
        m == (n % 3600) \div 60
        s == n % 60
    IN  (IF d # 0 THEN <<RefToken(d, "day")>> ELSE <<>>)
        \o (IF h # 0 THEN <<RefToken(h, "hour")>> ELSE <<>>)
        \o (IF m # 0 THEN <<RefToken(m, "minute")>> ELSE <<>>)
        \o (IF s # 0 THEN <<RefToken(s, "second")>> ELSE <<>>)

RefText(toks) ==
    CASE Len(toks) = 0 -> "0 seconds"
      [] Len(toks) = 1 -> toks[1]
      [] Len(toks) = 2 -> toks[1] \o " and " \o toks[2]
      [] Len(toks) = 3 -> toks[1] \o ", " \o toks[2] \o " and " \o toks[3]
      [] OTHER -> toks[1] \o ", " \o toks[2] \o ", " \o toks[3] \o " and " \o toks[4]

----------------------------------------------------------------------------
(* C11 *)

UnitNames == <<"day", "hour", "minute", "second">>

\* The whole seconds of a non-negative duration, split as documented.
RefParts(n) ==
    <<n \div 86400, (n % 86400) \div 3600, (n % 3600) \div 60, n % 60>>

\* The units (1 = days .. 4 = seconds) a token can be read as: a count of
\* 0..59 followed by the unit's name, with or without "s".
TokenUnits(tok) ==
    {r \in 1..4 : \E c \in 0..59 :
        \/ tok = ToString(c) \o " " \o UnitNames[r]
        \/ tok = ToString(c) \o " " \o UnitNames[r] \o "s"}

\* The units of RefParts(n) that are not zero, in descending order.
NonZeroUnits(n) == SelectSeq(<<1, 2, 3, 4>>, LAMBDA r : RefParts(n)[r] # 0)

\* The tokens FormatDuration builds for the duration of the current call.
Tokens == durationTokens(durationParts(duration))

\* C11: for a non-negative duration there is one token for every non-zero
\* unit of the decomposition and none for a zero unit, and the tokens come in
\* the order days, hours, minutes, seconds.
C11_OneTokenPerNonZeroUnit ==
    (op = "FormatDuration" /\ duration >= 0) =>
        LET units == NonZeroUnits(duration \div Second)
        IN  /\ Len(Tokens) = Len(units)
            /\ \A i \in 1..Len(Tokens) : TokenUnits(Tokens[i]) = {units[i]}
            /\ \A i \in 1..(Len(Tokens) - 1) :
                  \A r \in TokenUnits(Tokens[i]), q \in TokenUnits(Tokens[i + 1]) : r < q
            /\ ret = RefText(Tokens)

C11_Witness ==
    /\ op = "FormatDuration"
    /\ duration > 0
    /\ NonZeroUnits(duration \div Second) = <<1, 3>>
    /\ Len(Tokens) = 2

----------------------------------------------------------------------------
(* C12 *)

\* C12: no token gives "0 seconds", one token gives the token, two give
\* "<first> and <second>", three or four give all but the last joined by ", "
\* and then " and <last>".
C12_JoinByCount ==
    op = "FormatDuration" =>
        /\ Len(Tokens) <= 4
        /\ Len(Tokens) = 0 => ret = "0 seconds"
        /\ Len(Tokens) = 1 => ret = Tokens[1]
        /\ Len(Tokens) = 2 => ret = Tokens[1] \o " and " \o Tokens[2]
        /\ Len(Tokens) = 3 =>
              ret = Tokens[1] \o ", " \o Tokens[2] \o " and " \o Tokens[3]
        /\ Len(Tokens) = 4 =>
              ret = Tokens[1] \o ", " \o Tokens[2] \o ", " \o Tokens[3]
                    \o " and " \o Tokens[4]

C12_Witness ==
    /\ op = "FormatDuration"
    /\ Len(Tokens) = 4
    /\ ret = "2 days, 3 hours, 4 minutes and 5 seconds"

----------------------------------------------------------------------------
(* C13 *)

\* C13: a token names its unit in the singular exactly when its count is 1;
\* n seconds, 0 <= n < 60, read "1 second" for n = 1 and "<n> seconds" otherwise.
C13_SingularExactlyForOne ==
    (op = "FormatDuration" /\ duration >= 0) =>
        LET n == duration \div Second
            units == NonZeroUnits(n)
        IN  /\ Len(Tokens) = Len(units)
            /\ \A i \in 1..Len(Tokens) :
                  LET c == RefParts(n)[units[i]]
                  IN  Tokens[i] = IF c = 1
                                  THEN ToString(c) \o " " \o UnitNames[units[i]]
                                  ELSE ToString(c) \o " " \o UnitNames[units[i]] \o "s"
            /\ (n < 60) =>
                  ret = IF n = 1 THEN "1 second" ELSE ToString(n) \o " seconds"

C13_Witness ==
    /\ op = "FormatDuration"
    /\ duration = Second
    /\ Tokens = <<"1 second">>
    /\ ret = "1 second"

----------------------------------------------------------------------------
(* C19 *)

\* C19: for a negative duration every unit of the decomposition is zero or
\* negative, no token is built and the result is the literal "0 seconds".
C19_NegativeGivesZeroSeconds ==
    (op = "FormatDuration" /\ duration < 0) =>
        LET p == durationParts(duration)
        IN  /\ p.days <= 0 /\ p.hours <= 0 /\ p.minutes <= 0 /\ p.seconds <= 0
            /\ Tokens = <<>>
            /\ ret = "0 seconds"

C19_Witness ==
    /\ op = "FormatDuration"
    /\ duration < -(SecondsPerDay * Second)
    /\ durationParts(duration).days < 0
    /\ durationParts(duration).seconds < 0
    /\ ret = "0 seconds"

----------------------------------------------------------------------------
(* C18 *)

\* n divides y, by the mathematical (never negative) remainder.
Divides(n, y) == y % n = 0

\* C18: IsLeapYear(year) is true exactly when the year is divisible by 4 and
\* not by 100, or divisible by 400; 1600 and 2000 are leap years and 1700,
\* 1800 and 1900 are not.
C18_LeapYearRule ==
    op = "IsLeapYear" =>
        /\ ret = ((Divides(4, year) /\ ~Divides(100, year)) \/ Divides(400, year))
        /\ year \in {1600, 2000} => ret = TRUE
        /\ year \in {1700, 1800, 1900} => ret = FALSE

C18_Witness ==
    /\ op = "IsLeapYear"
    /\ year = -1900
    /\ ret = FALSE

----------------------------------------------------------------------------
(* C14 *)

\* The holiday is an instant of the range [from, to].
InsideRange(h, from, to) == ~Before(h, from) /\ ~After(h, to)

\* C14: with start not after end and a holiday list of exactly one Monday to
\* Friday date inside [start, end], WorkingDays gives one less than it gives
\* with the empty list.
C14_SingleHolidayRemovesOneDay ==
    ( /\ op = "WorkingDays"
      /\ ~After(start, end)
      /\ Len(holidays) = 1
      /\ ~isWeekend(holidays[1])
      /\ InsideRange(holidays[1], start, end) ) =>
        ret.count = WorkingDays(start, end, <<>>).count - 1

----------------------------------------------------------------------------
(* C16 *)

\* The calendar dates from that of `from` to that of `to`, both included.
DaysInRange(from, to) == absDay(to) - absDay(from) + 1

\* C16: with an empty holiday list and start not after end, WorkingDays gives
\* the total number of days of the inclusive range.
C16_EmptyHolidaysCountsAllDays ==
    (op = "WorkingDays" /\ holidays = <<>> /\ ~After(start, end)) =>
        ret.count = DaysInRange(start, end)

----------------------------------------------------------------------------
(* C15 *)

\* The days of a set of day numbers, in increasing order.
RECURSIVE SortedDays(_)
SortedDays(S) ==
    IF S = {} THEN <<>>
    ELSE LET first == CHOOSE n \in S : \A k \in S : n <= k
         IN  <<first>> \o SortedDays(S \ {first})

\* The dates of the list H and nothing else of it: each (year, month, day) of
\* H once, in calendar order, as the instant of its midnight in UTC.  Two lists
\* with the same dates, whatever their holidays' times of day and locations,
\* their order and their repetitions, give the same SameDates.
SameDates(H) ==
    LET days == SortedDays({absDay(H[i]) : i \in 1..Len(H)})
    IN  [i \in 1..Len(days) |-> Date(EpochYear, 1, 1 + days[i], 0, UTC)]

\* C15: the results of isHoliday, WorkingDays, BusinessDays and BusinessHours
\* are those for the bare dates of the holiday list, so changing a holiday's
\* time of day, reordering the list or repeating a date leaves them unchanged.
C15_OnlyHolidayDatesMatter ==
    op \in {"WorkingDays", "BusinessDays", "BusinessHours"} =>
        LET H == SameDates(holidays)
        IN  /\ isHoliday(start, H) = isHoliday(start, holidays)
            /\ isHoliday(end, H) = isHoliday(end, holidays)
            /\ op = "WorkingDays" => WorkingDays(start, end, H) = ret
            /\ op = "BusinessDays" => BusinessDays(start, end, H) = ret
            /\ op = "BusinessHours" => BusinessHours(start, end, H) = ret

C15_Witness ==
    /\ op = "WorkingDays"
    /\ Len(holidays) = 2
    /\ holidays[1] # holidays[2]
    /\ isHoliday(start, <<holidays[2]>>)
    /\ Clock(start) # Clock(holidays[2])
    /\ isHoliday(end, <<holidays[1]>>)
    /\ Len(SameDates(holidays)) = 2
    /\ SameDates(holidays)[1] # holidays[2]
    /\ SameDates(holidays)[2] # holidays[1]
    /\ ret.count = WorkingDays(start, end, <<>>).count - 2

----------------------------------------------------------------------------
(* C20 *)

\* a <= b < c share the time of day, and the day after b is not after c.
Adjacent(a, b, c) ==
    /\ ~After(a, b)
    /\ Before(b, c)
    /\ Clock(a) = Clock(b)
    /\ Clock(b) = Clock(c)
    /\ ~After(AddDate(b, 0, 0, 1), c)

\* C20: WorkingDays(a, b, H) + WorkingDays(b + 1 day, c, H) = WorkingDays(a, c, H)
\* for a <= b < c sharing the time of day, and the count lies between 0 and
\* the length of DateRange(a, c).
C20_WorkingDaysAdditive ==
    (op = "WorkingDays" /\ ret.err = Nil) =>
        /\ 0 <= ret.count
        /\ ret.count <= Len(DateRange(start, end))
        /\ \A b \in Times(start.loc) :
              Adjacent(start, b, end) =>
                  WorkingDays(start, b, holidays).count
                  + WorkingDays(AddDate(b, 0, 0, 1), end, holidays).count
                  = ret.count

----------------------------------------------------------------------------
(* C17 *)

\* No execution of Tick reaches the second case of the select: the ticker is
\* never stopped, c is never closed and the goroutine never returns.
TickNeverCloses == ~closed /\ ~stopped /\ pc # "done"

----------------------------------------------------------------------------
(* C21 *)

\* seq is the beginning of of: its first Len(seq) values, in order.
IsPrefix(seq, of) == Len(seq) <= Len(of) /\ seq = SubSeq(of, 1, Len(seq))

\* The values received on c are the values the goroutine took from ticker.C,
\* in the order it took them and each at most once: all of them but, while the
\* goroutine is at its send, the last, which it holds in t.
DeliveredInOrder ==
    /\ IsPrefix(received, taken)
    /\ \A i, j \in 1..Len(taken) : i < j => taken[i] < taken[j]
    /\ Len(taken) = Len(received) + (IF pc = "send" THEN 1 ELSE 0)
    /\ pc = "send" => held = taken[Len(taken)]

\* A step in which the consumer receives nothing leaves a goroutine that is
\* at its send there, with the same pending tick and nothing more taken from
\* ticker.C.
BlockedUntilReceived ==
    (pc = "send" /\ received' = received) =>
        /\ pc' = "send"
        /\ held' = held
        /\ taken' = taken

\* C21: in every interleaving of the ticker, the goroutine and the consumer
\* the values received on c are values the goroutine took from ticker.C, in the
\* same order and at most once each, and while the consumer does not receive
\* the goroutine stays at its send with one pending tick and takes no other.
C21_ForwardedInOrderOnce == [](DeliveredInOrder) /\ [][BlockedUntilReceived]_vars

\* Two ticks have been received, the second not the one that followed the
\* first (a tick was dropped in between), and the goroutine waits at its send
\* with a third while the next one is already in ticker.C.
C21_Witness ==
    /\ pc = "send"
    /\ Len(received) = 2
    /\ received[2] > received[1] + 1
    /\ Len(taken) = 3
    /\ held = taken[3]
    /\ tickerC # <<>>

====
